---- MODULE Spec2Model ----
(***************************************************************************)
(* Versioned ingestion manifest of app/ingest_api.py.                      *)
(*                                                                         *)
(* One dataset is modelled.  The shared state is the manifest object in    *)
(* the storage backend (S3 object or local file); every handler run and    *)
(* every background job keeps its own in-memory copy of the manifest       *)
(* between its get_manifest and its put_manifest.  Steps are cut at the    *)
(* storage accesses: the code between two storage accesses touches only    *)
(* the handler's own variables and is part of the step that precedes it.   *)
(*                                                                         *)
(* ingest_version is a coroutine without an await, so on the event loop    *)
(* one call ends before the next begins; _process_and_update_manifest is a *)
(* plain function, so BackgroundTasks runs it on a worker thread, where it *)
(* interleaves with the other jobs and with later calls.  When a call or a *)
(* job has ended, its local variables are gone: only its answer is kept.   *)
(*                                                                         *)
(* A storage call may fail: s3.get_object and s3.put_object may raise, a   *)
(* local write may raise before or after it has truncated the file.        *)
(*                                                                         *)
(* The vector index of app/rag_utils.py (SpecIndex) and the process-wide   *)
(* state of the query service of app/main.py (SpecService) are modelled in *)
(* the last two parts, each with its own variables and specification.      *)
(***************************************************************************)
EXTENDS Integers, Sequences, FiniteSets, TLC

\* ------------------------------------------------------------------ bounds
\* Number of ingest_version calls issued (and so of background jobs).
MaxSubmits == 2
\* Number of storage-backend failures (raising reads and writes) injected.
MaxFaults == 1
\* Number of chunks split_docs returns for the readable sample source.
SampleChunks == 3
\* Longest chunk sequence an index is built from.
MaxChunks == 3
\* Largest top_k a query asks for.
MaxTopK == 3
\* Number of query calls made on the index, and on the query service.
MaxQueries == 2
\* Number of /ingest calls made on the query service.
MaxIngests == 2

\* ------------------------------------------------------------------ inputs
DS == "docs"
Versions == {"v1", "v2"}
RemoteSource == [scheme |-> "s3://", path |-> "bucket/sample.txt"]
SampleSource == [scheme |-> "", path |-> "sample_docs/sample.txt"]
Sources == {RemoteSource, SampleSource}
Backends == {"s3", "local"}

ReqIds == 1 .. MaxSubmits

\* Python None, and a key that the dict does not (yet) have.
Null == <<>>

VARIABLES
    backend,    \* "s3" when S3_BUCKET is set, else "local"
    store,      \* the manifest object of dataset DS in the backend
    reqs,       \* the ingest_version calls: position and local variables
    jobs,       \* the background jobs, one per scheduled entry id
    faults      \* storage failures injected so far

\* app/rag_utils.py: one SimpleInMemoryIndex and the queries made on it.
VARIABLES
    idx,            \* the index object (create_or_load_index, line 71)
    argsort_ties,   \* how this build's np.argsort orders equal keys
    queries         \* the query calls made so far, with what they returned

\* app/main.py: the process-wide state of the query service.
VARIABLES
    INDEX,          \* global INDEX (line 10)
    RETRIEVER,      \* global RETRIEVER (line 11)
    ingests,        \* the ingest_docs calls: position and local values
    answers         \* what the query_docs calls made so far answered

ingestVars == <<backend, store, reqs, jobs, faults>>
indexVars == <<idx, argsort_ties, queries>>
serviceVars == <<INDEX, RETRIEVER, ingests, answers>>
vars == <<ingestVars, indexVars, serviceVars>>

\* Python objects of the query service.
None == [type |-> "NoneType"]

\* No index object has been constructed and no query made.
IndexIdle ==
    /\ idx = None
    /\ argsort_ties = "ascending"
    /\ queries = <<>>

IngestIds == 1 .. MaxIngests

IdleIngest == [pc |-> "idle", loaded |-> None, status |-> 0]

\* The module has just been imported: INDEX = None, RETRIEVER = None.
ServiceIdle ==
    /\ INDEX = None
    /\ RETRIEVER = None
    /\ ingests = [c \in IngestIds |-> IdleIngest]
    /\ answers = <<>>

\* ------------------------------------------------------- manifest values
EmptyManifest(dataset_id) == [dataset_id |-> dataset_id, versions |-> <<>>]

AbsentStore == [state |-> "absent", body |-> EmptyManifest("")]
\* A local file truncated by open(path, "w") whose json.dump did not finish.
TornStore == [state |-> "torn", body |-> EmptyManifest("")]
JsonStore(manifest) == [state |-> "json", body |-> manifest]

\* The versions list of the stored manifest (empty when there is none).
StoredVersions == IF store.state = "json" THEN store.body.versions ELSE <<>>

Range(seq) == {seq[i] : i \in 1 .. Len(seq)}

\* any(v["version"] == version for v in manifest["versions"])
HasVersion(manifest, version) ==
    \E i \in 1 .. Len(manifest.versions) : manifest.versions[i].version = version

\* os.path.basename("./data/{dataset_id}/manifest.json")
LocalDefaultId == "manifest.json"

\* uuid.uuid4(): a fresh identifier per call; the call's ordinal stands for it.
NewId(r) == r

\* The entry of lines 65-73; created_at, a timestamp nothing reads, is left
\* out, and the keys set later (indexed_at, error) start as Null.
NewEntry(version, id, source) ==
    [version |-> version, id |-> id, source |-> source, status |-> "PENDING",
     chunks_indexed |-> 0, index_path |-> Null, indexed_at |-> Null,
     error |-> Null]

\* The new entry appended without dropping the old one of the same label.
AppendOnly(versions, entry) == Append(versions, entry)

\* The new entry put in front of the kept ones instead of behind them.
UpsertInFront(versions, entry) ==
    LET Keep(v) == v.version # entry.version
    IN  <<entry>> \o SelectSeq(versions, Keep)

\* [v for v in manifest["versions"] if v["version"] != version] + [entry]
UpsertVersions(versions, entry) ==
    LET Keep(v) == v.version # entry.version
    IN  Append(SelectSeq(versions, Keep), entry)

IndexPath(dataset_id, version) == <<"/tmp/indexes", dataset_id, version>>

\* The try block's loop forgetting to record the chunk count.
MarkIndexedNoCount(manifest, dataset_id, version, entry_id, nchunks) ==
    [manifest EXCEPT !.versions =
        [i \in 1 .. Len(manifest.versions) |->
            LET v == manifest.versions[i]
            IN  IF v.version = version /\ v.id = entry_id
                THEN [v EXCEPT !.status = "INDEXED",
                               !.index_path = IndexPath(dataset_id, version),
                               !.indexed_at = <<"utcnow">>]
                ELSE v]]

\* The loop of the try block: the entry matching (version, id) becomes INDEXED.
MarkIndexed(manifest, dataset_id, version, entry_id, nchunks) ==
    [manifest EXCEPT !.versions =
        [i \in 1 .. Len(manifest.versions) |->
            LET v == manifest.versions[i]
            IN  IF v.version = version /\ v.id = entry_id
                THEN [v EXCEPT !.status = "INDEXED",
                               !.chunks_indexed = nchunks,
                               !.index_path = IndexPath(dataset_id, version),
                               !.indexed_at = <<"utcnow">>]
                ELSE v]]

\* The except block's loop setting the status without the error text.
MarkFailedNoError(manifest, version, entry_id, message) ==
    [manifest EXCEPT !.versions =
        [i \in 1 .. Len(manifest.versions) |->
            LET v == manifest.versions[i]
            IN  IF v.version = version /\ v.id = entry_id
                THEN [v EXCEPT !.status = "FAILED"]
                ELSE v]]

\* The loop of the except block: the entry matching (version, id) becomes FAILED.
MarkFailed(manifest, version, entry_id, message) ==
    [manifest EXCEPT !.versions =
        [i \in 1 .. Len(manifest.versions) |->
            LET v == manifest.versions[i]
            IN  IF v.version = version /\ v.id = entry_id
                THEN [v EXCEPT !.status = "FAILED", !.error = <<message>>]
                ELSE v]]

\* --------------------------------------------------------------- storage
Returned(manifest) == [raised |-> FALSE, manifest |-> manifest]
Raised == [raised |-> TRUE, manifest |-> EmptyManifest("")]

\* get_manifest when the backend answers.
GetManifest ==
    IF backend = "s3"
    THEN IF store.state = "json" THEN Returned(store.body)
         ELSE Returned(EmptyManifest(DS))
    ELSE IF store.state = "json" THEN Returned(store.body)
         ELSE IF store.state = "absent" THEN Returned(EmptyManifest(LocalDefaultId))
         ELSE Raised

\* get_manifest when s3.get_object raises something else than NoSuchKey.
GetManifestOnError == Returned(EmptyManifest(DS))

\* The outcomes of one get_manifest call, each with the faults it uses up.
GetOutcomes ==
    {[fault |-> 0, res |-> GetManifest]}
    \cup (IF backend = "s3" /\ faults < MaxFaults
          THEN {[fault |-> 1, res |-> GetManifestOnError]} ELSE {})

\* The outcomes of one put_manifest call: the write replaces the object, or
\* it raises.  A raising S3 put leaves the object as it was; a raising local
\* put leaves the file as it was (makedirs or open failed) or truncated.
PutOutcomes(manifest) ==
    {[fault |-> 0, ok |-> TRUE, store |-> JsonStore(manifest)]}
    \cup (IF faults < MaxFaults
          THEN {[fault |-> 1, ok |-> FALSE, store |-> store]}
               \cup (IF backend = "local"
                     THEN {[fault |-> 1, ok |-> FALSE, store |-> TornStore]}
                     ELSE {})
          ELSE {})

\* ------------------------------------------------------------------ state
IdleReq ==
    [pc |-> "idle", version |-> "", upsert |-> FALSE, source |-> SampleSource,
     manifest |-> EmptyManifest(""), entry_id |-> 0, result |-> "none"]

NoJob ==
    [pc |-> "none", version |-> "", source |-> SampleSource, built |-> FALSE,
     manifest |-> EmptyManifest(""), error |-> "", result |-> "none"]

\* The manifest an earlier, finished ingestion of the sample source under
\* label "v1" has left behind: the first submit read the empty manifest of
\* the backend and its job recorded the index.
EarlierManifest(b) ==
    LET empty == EmptyManifest(IF b = "s3" THEN DS ELSE LocalDefaultId)
        entry == NewEntry("v1", 0, SampleSource)
        stored == [empty EXCEPT !.versions = UpsertVersions(empty.versions, entry)]
    IN  MarkIndexed(stored, DS, "v1", 0, SampleChunks)

\* A dataset never ingested before, or one with an earlier ingestion.
Init ==
    /\ backend \in Backends
    /\ store \in {AbsentStore, JsonStore(EarlierManifest(backend))}
    /\ reqs = [r \in ReqIds |-> IdleReq]
    /\ jobs = [j \in ReqIds |-> NoJob]
    /\ faults = 0
    /\ IndexIdle
    /\ ServiceIdle

\* No ingest_version call is made: the S3 dataset stays as it was found.
ManifestIdle ==
    /\ backend = "s3"
    /\ store = AbsentStore
    /\ reqs = [r \in ReqIds |-> IdleReq]
    /\ jobs = [j \in ReqIds |-> NoJob]
    /\ faults = 0

\* ------------------------------------------------------- ingest_version
\* The duplicate test with the upsert flag read the wrong way round.
IsDuplicateFlagInverted(manifest, version, upsert) ==
    HasVersion(manifest, version) /\ upsert

\* The duplicate test of line 62.
IsDuplicate(manifest, version, upsert) ==
    HasVersion(manifest, version) /\ ~upsert

\* A call that has ended keeps what it answered; its local variables are gone.
\* HTTPException(status_code=400) of line 63.
Rejected(req) ==
    [IdleReq EXCEPT !.pc = "done", !.result = "400", !.version = req.version]
\* An exception of get_manifest or put_manifest leaves the handler.
Failed500 == [IdleReq EXCEPT !.pc = "done", !.result = "500"]
\* The answer of line 81, with the version and the task_id.
Started(req) ==
    [IdleReq EXCEPT !.pc = "done", !.result = "started",
                    !.version = req.version, !.entry_id = req.entry_id]

\* A request that carries no version (None, or the empty string).
NoVersion == ""

\* Readings of datetime.utcnow(), in seconds from some instant.
Clock == {0, 1}

\* strftime("v%Y%m%dT%H%M%S") of a reading of the clock.
Strftime(now) ==
    IF now = 0 THEN "v20260101T000000" ELSE "v20260101T000001"

\* Line 58: req.version or the label made from the clock.
VersionOrDefault(version, now) ==
    IF version = NoVersion THEN Strftime(now) ELSE version

\* Lines 57-73: read the manifest, reject a duplicate label unless upsert,
\* else build the PENDING entry and the new versions list (line 76).
SubmitRead(r) ==
    /\ reqs[r].pc = "idle"
    /\ \A q \in ReqIds : q < r => reqs[q].pc = "done"
    /\ \E version \in Versions, upsert \in BOOLEAN, source \in Sources,
          get \in GetOutcomes :
        LET req == [reqs[r] EXCEPT !.version = version, !.upsert = upsert,
                                   !.source = source]
            manifest == get.res.manifest
            entry == NewEntry(version, NewId(r), source)
        IN  /\ faults' = faults + get.fault
            /\ reqs' = [reqs EXCEPT ![r] =
                 IF get.res.raised
                 THEN Failed500
                 ELSE IF IsDuplicate(manifest, version, upsert)
                 THEN Rejected(req)
                 ELSE [req EXCEPT !.pc = "put", !.entry_id = entry.id,
                                  !.manifest =
                                      [manifest EXCEPT !.versions =
                                          UpsertVersions(manifest.versions, entry)]]]
    /\ UNCHANGED <<backend, store, jobs, indexVars, serviceVars>>

\* The same lines for a request without a version: the label is made from
\* the clock (line 58).
SubmitReadDefault(r) ==
    /\ reqs[r].pc = "idle"
    /\ \A q \in ReqIds : q < r => reqs[q].pc = "done"
    /\ \E now \in Clock, upsert \in BOOLEAN, source \in Sources,
          get \in GetOutcomes :
        LET version == VersionOrDefault(NoVersion, now)
            req == [reqs[r] EXCEPT !.version = version, !.upsert = upsert,
                                   !.source = source]
            manifest == get.res.manifest
            entry == NewEntry(version, NewId(r), source)
        IN  /\ faults' = faults + get.fault
            /\ reqs' = [reqs EXCEPT ![r] =
                 IF get.res.raised
                 THEN Failed500
                 ELSE IF IsDuplicate(manifest, version, upsert)
                 THEN Rejected(req)
                 ELSE [req EXCEPT !.pc = "put", !.entry_id = entry.id,
                                  !.manifest =
                                      [manifest EXCEPT !.versions =
                                          UpsertVersions(manifest.versions, entry)]]]
    /\ UNCHANGED <<backend, store, jobs, indexVars, serviceVars>>

\* The job add_task registers for the entry the call has just stored.
ScheduledJob(req) ==
    [NoJob EXCEPT !.pc = "scheduled", !.version = req.version,
                  !.source = req.source]

\* add_task called whether or not put_manifest returned.
JobsScheduledAnyway(r, put) ==
    [jobs EXCEPT ![reqs[r].entry_id] = ScheduledJob(reqs[r])]

\* The state of the jobs after a put_manifest of request r with outcome put:
\* add_task is reached only when put_manifest returned.
JobsAfterPut(r, put) ==
    IF put.ok
    THEN [jobs EXCEPT ![reqs[r].entry_id] = ScheduledJob(reqs[r])]
    ELSE jobs

\* Lines 77-81: store the manifest, then schedule the job and answer.
SubmitPut(r) ==
    /\ reqs[r].pc = "put"
    /\ \E put \in PutOutcomes(reqs[r].manifest) :
        /\ faults' = faults + put.fault
        /\ store' = put.store
        /\ jobs' = JobsAfterPut(r, put)
        /\ reqs' = [reqs EXCEPT ![r] =
                                IF put.ok THEN Started(reqs[r]) ELSE Failed500]
    /\ UNCHANGED <<backend, indexVars, serviceVars>>

\* ------------------------------------------ _process_and_update_manifest
\* Outcomes of lines 88-94 for a source: the s3:// rejection, else success
\* or an exception of load_text_file, split_docs or create_or_load_index
\* (an unreadable file, a failing embedding model).
ProcessOutcomes(source) ==
    IF source.scheme = "s3://" THEN {"S3 source not supported"}
    ELSE {"ok", "pipeline failed"}

\* The except block marking the copy the try block has already updated,
\* instead of reading the manifest again.
ExceptReuseCopy(job, j, message, get) ==
    IF get.res.raised
    THEN [job EXCEPT !.pc = "done", !.result = "raised", !.error = message,
                     !.source = NoJob.source]
    ELSE [job EXCEPT !.pc = "exc_put", !.error = message, !.source = NoJob.source,
                     !.manifest =
                         MarkFailed(IF job.pc = "except" /\ job.built
                                    THEN job.manifest ELSE get.res.manifest,
                                    job.version, j, message)]

\* The except block up to its put_manifest (lines 105-109), entered with
\* the message of the exception caught.
ExceptRead(job, j, message, get) ==
    IF get.res.raised
    THEN [job EXCEPT !.pc = "done", !.result = "raised", !.error = message,
                     !.source = NoJob.source]
    ELSE [job EXCEPT !.pc = "exc_put", !.error = message, !.source = NoJob.source,
                     !.manifest = MarkFailed(get.res.manifest, job.version, j, message)]

\* Lines 85-102 (or 85-94 and 104-109 when the pipeline raised): load, split
\* and build, then the first read of the manifest and the update in memory.
JobRun(j) ==
    /\ jobs[j].pc = "scheduled"
    /\ \E outcome \in ProcessOutcomes(jobs[j].source), get \in GetOutcomes :
        /\ faults' = faults + get.fault
        /\ jobs' = [jobs EXCEPT ![j] =
             IF outcome # "ok"
             THEN ExceptRead(jobs[j], j, outcome, get)
             ELSE IF get.res.raised
             THEN [jobs[j] EXCEPT !.pc = "except", !.built = TRUE,
                                  !.source = NoJob.source,
                                  !.error = "manifest read failed"]
             ELSE [jobs[j] EXCEPT !.pc = "try_put", !.built = TRUE,
                                  !.source = NoJob.source,
                                  !.manifest = MarkIndexed(get.res.manifest,
                                      DS, jobs[j].version, j, SampleChunks)]]
    /\ UNCHANGED <<backend, store, reqs, indexVars, serviceVars>>

\* The failure of line 103's put_manifest leaving the job uncaught.
TryPutFailureRaised(job) ==
    [job EXCEPT !.pc = "done", !.result = "raised",
                !.error = "manifest write failed"]

\* What the job does when the put_manifest of line 103 raises.
AfterTryPutFailure(job) ==
    [job EXCEPT !.pc = "except", !.error = "manifest write failed"]

\* Line 103: write the manifest with the INDEXED entry.
JobTryPut(j) ==
    /\ jobs[j].pc = "try_put"
    /\ \E put \in PutOutcomes(jobs[j].manifest) :
        /\ faults' = faults + put.fault
        /\ store' = put.store
        /\ jobs' = [jobs EXCEPT ![j] =
             IF put.ok
             THEN [jobs[j] EXCEPT !.pc = "done", !.result = "returned",
                                  !.manifest = EmptyManifest("")]
             ELSE AfterTryPutFailure(jobs[j])]
    /\ UNCHANGED <<backend, reqs, indexVars, serviceVars>>

\* Lines 104-109 after a storage call of the try block raised.
JobExcept(j) ==
    /\ jobs[j].pc = "except"
    /\ \E get \in GetOutcomes :
        /\ faults' = faults + get.fault
        /\ jobs' = [jobs EXCEPT ![j] = ExceptRead(jobs[j], j, jobs[j].error, get)]
    /\ UNCHANGED <<backend, store, reqs, indexVars, serviceVars>>

\* Line 110: write the manifest with the FAILED entry; nothing catches a
\* failure of this write.
JobExcPut(j) ==
    /\ jobs[j].pc = "exc_put"
    /\ \E put \in PutOutcomes(jobs[j].manifest) :
        /\ faults' = faults + put.fault
        /\ store' = put.store
        /\ jobs' = [jobs EXCEPT ![j].pc = "done",
                                ![j].manifest = EmptyManifest(""),
                                ![j].result = IF put.ok THEN "returned" ELSE "raised"]
    /\ UNCHANGED <<backend, reqs, indexVars, serviceVars>>

Next ==
    \E r \in ReqIds :
        \/ SubmitRead(r)
        \/ SubmitPut(r)
        \/ JobRun(r)
        \/ JobTryPut(r)
        \/ JobExcept(r)
        \/ JobExcPut(r)

Spec == Init /\ [][Next]_vars

\* One submit, with or without a version, and its job, nothing else acting
\* on the dataset.
NextSingle ==
    \/ SubmitRead(1)
    \/ SubmitReadDefault(1)
    \/ SubmitPut(1)
    \/ JobRun(1)
    \/ JobTryPut(1)
    \/ JobExcept(1)
    \/ JobExcPut(1)

SpecSingle == Init /\ [][NextSingle]_vars

\* ================================================================ claims
Entries == Range(StoredVersions)

\* Request r leaves "idle" in this step: its get_manifest and duplicate test.
ReadsNow(r) == reqs[r].pc = "idle" /\ reqs'[r].pc # "idle"
\* Request r performs its put_manifest in this step.
PutsNow(r) == reqs[r].pc = "put" /\ reqs'[r].pc # "put"
\* The step injects a storage failure.
FaultNow == faults' # faults

Others(versions, version) ==
    LET Keep(v) == v.version # version
    IN  SelectSeq(versions, Keep)

\* C1: a submit whose label is already in the stored manifest (the backend
\* answering the read) and whose upsert flag is false is answered 400, does
\* not change the stored manifest and schedules no job, in that step and
\* ever after.
C1_DuplicateRejected ==
    /\ [][\A r \in ReqIds :
            (/\ ReadsNow(r)
             /\ ~FaultNow
             /\ HasVersion(GetManifest.manifest, reqs'[r].version)
             /\ ~reqs'[r].upsert)
            => /\ reqs'[r].pc = "done"
               /\ reqs'[r].result = "400"
               /\ store' = store
               /\ jobs' = jobs]_vars
    /\ [][\A r \in ReqIds :
            reqs[r].result = "400"
            => /\ reqs'[r] = reqs[r]
               /\ jobs'[NewId(r)].pc = "none"]_vars

\* A duplicate submit without upsert was rejected while the stored manifest
\* holds the label.
C1_Witness ==
    \E r \in ReqIds :
        /\ reqs[r].result = "400"
        /\ \E e \in Entries : e.version = reqs[r].version

\* C2: no two entries of the stored versions list carry the same version
\* label, in every reachable state.
C2_UniqueVersions ==
    \A i, k \in 1 .. Len(StoredVersions) :
        i # k => StoredVersions[i].version # StoredVersions[k].version

\* Two accepted submits of one label (the second replaced the entry of the
\* first), and the stored manifest holds the second's entry.
C2_Witness ==
    \E r, q \in ReqIds :
        /\ r < q
        /\ reqs[r].result = "started" /\ reqs[q].result = "started"
        /\ reqs[r].version = reqs[q].version
        /\ \E e \in Entries : e.id = reqs[q].entry_id

\* C3: an upsert of a label found in the manifest read builds the list of the
\* other entries, unchanged and in their order, followed by one new entry
\* (fresh id, PENDING, 0 chunks, no index path) as the only entry of that
\* label; and its put_manifest stores exactly that list.
C3_UpsertReplaces ==
    /\ [][\A r \in ReqIds :
            (/\ ReadsNow(r)
             /\ ~FaultNow
             /\ reqs'[r].upsert
             /\ HasVersion(GetManifest.manifest, reqs'[r].version))
            => LET old == GetManifest.manifest.versions
                   new == reqs'[r].manifest.versions
                   last == new[Len(new)]
               IN  /\ reqs'[r].pc = "put"
                   /\ Len(new) = Len(old)
                   /\ last.version = reqs'[r].version
                   /\ last.id = reqs'[r].entry_id
                   /\ \A i \in 1 .. Len(old) : old[i].id # last.id
                   /\ last.status = "PENDING"
                   /\ last.chunks_indexed = 0
                   /\ last.index_path = Null
                   /\ \A i \in 1 .. Len(new) - 1 : new[i].version # last.version
                   /\ Others(new, last.version) = Others(old, last.version)]_vars
    /\ [][\A r \in ReqIds :
            (PutsNow(r) /\ ~FaultNow)
            => store' = JsonStore(reqs[r].manifest)]_vars

\* An upsert has built its list from a stored manifest that holds the label
\* under another id as its first entry, and an entry of another label.
C3_Witness ==
    \E r \in ReqIds :
        /\ reqs[r].pc = "put"
        /\ reqs[r].upsert
        /\ Len(StoredVersions) = 2
        /\ StoredVersions[1].version = reqs[r].version
        /\ StoredVersions[2].version # reqs[r].version
        /\ Len(reqs[r].manifest.versions) = 2
        /\ reqs[r].manifest.versions[1] = StoredVersions[2]

\* ------------------------------------------------- claims about the jobs
Terminal(status) == status \in {"INDEXED", "FAILED"}

\* C4: once the stored manifest holds an entry with status INDEXED or FAILED,
\* no later stored manifest holds an entry of that id with another status
\* (stated for steps without storage failures).
C4_TerminalStatus ==
    [][~FaultNow /\ faults = 0
        => \A e \in Entries :
            Terminal(e.status)
            => \A f \in Range(StoredVersions') :
                f.id = e.id => f.status = e.status]_vars

\* No call is between its read and its write, and no job is unfinished.
Quiescent ==
    /\ \A r \in ReqIds : reqs[r].pc \in {"idle", "done"}
    /\ \A j \in ReqIds : jobs[j].pc \in {"none", "done"}

\* The accepted submits all carry different labels.
DistinctLabels ==
    \A r, q \in ReqIds :
        (r # q /\ reqs[r].result = "started" /\ reqs[q].result = "started")
        => reqs[r].version # reqs[q].version

\* C5: once all scheduled jobs have finished, no storage call having failed
\* and the submits being for different labels, the stored manifest holds no
\* PENDING entry.
C5_NoPendingLeft ==
    (Quiescent /\ faults = 0 /\ DistinctLabels)
    => \A e \in Entries : e.status # "PENDING"

\* C6: an entry's label stays in the stored manifest, and its id changes only
\* by the put_manifest of an upsert of that label (stated for steps without
\* storage failures).
C6_NeverDeleted ==
    [][(~FaultNow /\ faults = 0 /\ store'.state = "json")
        => \A e \in Entries :
            \E f \in Range(StoredVersions') :
                /\ f.version = e.version
                /\ \/ f.id = e.id
                   \/ \E r \in ReqIds :
                       /\ PutsNow(r)
                       /\ reqs[r].upsert
                       /\ reqs[r].version = e.version
                       /\ f.id = reqs[r].entry_id]_vars

\* Job x takes a step.
JobStepsNow(x) == jobs[x].pc \notin {"none", "done"} /\ jobs'[x] # jobs[x]

\* C7: a step of the job of entry X leaves every stored entry Y of the same
\* label that a later submit has put in X's place exactly as it is (stated
\* for steps without storage failures).
C7_StaleWorkerHarmless ==
    [][\A x \in ReqIds :
        (JobStepsNow(x) /\ ~FaultNow /\ faults = 0)
        => \A y \in Entries :
            (y.version = jobs[x].version /\ y.id > x)
            => y \in Range(StoredVersions')]_vars

C9_WorkerNeverRaises ==
    \A j \in ReqIds : jobs[j].result # "raised"

StorageErrors == {"manifest read failed", "manifest write failed"}

\* C10 as claimed: a failing write of the INDEXED entry is raised out of the
\* job rather than caught, and no entry whose load, split and build succeeded
\* is stored as FAILED.
C10_WriteErrorPropagates ==
    /\ \A j \in ReqIds :
        (jobs[j].built /\ jobs[j].error = "manifest write failed")
        => (jobs[j].pc = "done" /\ jobs[j].result = "raised")
    /\ \A e \in Entries :
        (e.id \in ReqIds /\ jobs[e.id].built) => e.status # "FAILED"

\* C10 as amended: a failing write of the INDEXED entry is caught; the job
\* goes on to the except block, which reads the manifest again and stores the
\* entry as FAILED with the message of the storage error.  A job ends by
\* raising only out of the except block, and an entry whose load, split and
\* build succeeded is stored as FAILED only with a storage error's message.
C10_WriteErrorCaught ==
    /\ [][\A j \in ReqIds :
            (jobs[j].pc = "try_put" /\ jobs'[j] # jobs[j] /\ FaultNow)
            => /\ jobs'[j].pc = "except"
               /\ jobs'[j].result = "none"
               /\ jobs'[j].error = "manifest write failed"]_vars
    /\ [][\A j \in ReqIds :
            (jobs[j].result # "raised" /\ jobs'[j].result = "raised")
            => \/ jobs[j].pc \in {"except", "exc_put"}
               \/ jobs[j].pc = "scheduled" /\ ~jobs'[j].built]_vars
    /\ [][\A e \in Range(StoredVersions') :
            (e.id \in ReqIds /\ jobs'[e.id].built /\ e.status = "FAILED")
            => \E m \in StorageErrors : e.error = <<m>>]_vars

\* The write of an INDEXED entry failed, and the except block has stored the
\* entry of the successfully built index as FAILED.
C10_Witness ==
    \E j \in ReqIds :
        /\ jobs[j].built
        /\ jobs[j].pc = "done"
        /\ jobs[j].result = "returned"
        /\ jobs[j].error = "manifest write failed"
        /\ \E e \in Entries : e.id = j /\ e.status = "FAILED"

\* --------------------------------------------------- end-to-end scenarios
\* The positions of the stored entries that carry a label.
WithVersion(version) ==
    {i \in 1 .. Len(StoredVersions) : StoredVersions[i].version = version}

\* The single submit was accepted and its job has ended, no storage call
\* having failed.
SingleDone ==
    /\ reqs[1].result = "started"
    /\ jobs[1].pc = "done"
    /\ faults = 0

\* C11: after a single accepted submit whose source was loaded, split into n
\* chunks and indexed, and whose job has ended, the stored manifest holds
\* exactly one entry of the answered label; it has the answered task_id, is
\* INDEXED with n chunks and has an index path.
C11_EndToEndSuccess ==
    (SingleDone /\ jobs[1].built)
    => /\ Cardinality(WithVersion(reqs[1].version)) = 1
       /\ \A i \in WithVersion(reqs[1].version) :
            /\ StoredVersions[i].id = reqs[1].entry_id
            /\ StoredVersions[i].status = "INDEXED"
            /\ StoredVersions[i].chunks_indexed = SampleChunks
            /\ StoredVersions[i].index_path # Null

\* A submit without a version has been indexed under the generated label.
C11_Witness ==
    /\ SingleDone
    /\ jobs[1].built
    /\ reqs[1].version \notin Versions
    /\ \E e \in Entries : e.id = reqs[1].entry_id /\ e.status = "INDEXED"

\* C12: when the job of a single submit has ended after its pipeline raised
\* (unreadable source, or a source starting with s3://), no storage call
\* having failed, the submit was answered with success and the entry of its
\* (version, id) is FAILED with a non-empty error string, 0 chunks and no
\* index path.
C12_EndToEndFailure ==
    (jobs[1].pc = "done" /\ ~jobs[1].built /\ faults = 0)
    => /\ reqs[1].result = "started"
       /\ Cardinality(WithVersion(reqs[1].version)) = 1
       /\ \A i \in WithVersion(reqs[1].version) :
            /\ StoredVersions[i].id = reqs[1].entry_id
            /\ StoredVersions[i].status = "FAILED"
            /\ StoredVersions[i].error # Null
            /\ StoredVersions[i].error[1] # ""
            /\ StoredVersions[i].chunks_indexed = 0
            /\ StoredVersions[i].index_path = Null

\* The job of a submit with an s3:// source has ended and the entry is FAILED.
C12_Witness ==
    /\ SingleDone
    /\ ~jobs[1].built
    /\ \E e \in Entries :
        /\ e.id = reqs[1].entry_id
        /\ e.source = RemoteSource
        /\ e.status = "FAILED"

\* ------------------------------------------------------------ get_manifest
\* C13: in every state of the storage backend every outcome of get_manifest
\* is a manifest, never an exception, and it has an empty versions list when
\* no manifest is stored.
C13_GetManifestNeverFails ==
    \A get \in GetOutcomes :
        /\ ~get.res.raised
        /\ store.state = "absent" => get.res.manifest.versions = <<>>

\* --------------------------------------------------- stored manifest shape
\* The fields of an entry agree with its status.
FieldsAgree(e) ==
    /\ (e.status = "INDEXED") <=> (e.index_path # Null)
    /\ e.status = "INDEXED"
        => (e.indexed_at # Null /\ e.chunks_indexed = SampleChunks)
    /\ e.status = "PENDING"
        => (e.chunks_indexed = 0 /\ e.index_path = Null /\ e.error = Null)
    /\ e.status = "FAILED"
        => (e.error # Null /\ e.chunks_indexed = 0 /\ e.index_path = Null)

\* C17: in every stored manifest each entry's fields agree with its status:
\* INDEXED exactly with an index path, then with indexed_at and the number of
\* chunks built; PENDING with 0 chunks, no index path and no error; FAILED
\* with an error, 0 chunks and no index path.
C17_FieldsAgreeWithStatus ==
    \A e \in Entries : e.status \in {"PENDING", "INDEXED", "FAILED"} /\ FieldsAgree(e)

\* The write of an entry marked INDEXED in memory failed, and the job has
\* stored the entry as FAILED, with 0 chunks and no index path.
C17_Witness ==
    \E e \in Entries :
        /\ e.id \in ReqIds
        /\ jobs[e.id].built
        /\ jobs[e.id].result = "returned"
        /\ e.status = "FAILED"
        /\ e.error = <<"manifest write failed">>
        /\ e.chunks_indexed = 0
        /\ e.index_path = Null

\* C18: every manifest get_manifest returns to a submit, and every manifest
\* a submit or a job stores, carries the dataset's id in dataset_id.
C18_DatasetIdMatches ==
    [][/\ \A r \in ReqIds :
            (ReadsNow(r) /\ reqs'[r].pc = "put")
            => reqs'[r].manifest.dataset_id = DS
       /\ (store' # store /\ store'.state = "json")
            => store'.body.dataset_id = DS]_vars

\* ============================================================ rag_utils.py
\* Arrays are kept with their shape, as numpy keeps them: a 1-D array of n
\* numbers has shape <<n>>, a 2-D array of n rows of d numbers has shape
\* <<n, d>> and its data is the sequence of its rows.  Rows are counted from
\* 1 here and from 0 in the code.

\* The embedding model: a fixed map from a text to a vector of fixed length.
\* The vectors lie on the axes, so that every L2 norm is a whole number.
Embedding ==
    ("alpha" :> <<1, 0>>) @@ ("alpha alpha" :> <<2, 0>>)
        @@ ("gamma" :> <<0, 1>>) @@ ("" :> <<0, 0>>)

ChunkTexts == DOMAIN Embedding
QueryTexts == {"alpha", "gamma"}
TopKs == 1 .. MaxTopK
ChunkSeqs == UNION {[1 .. n -> ChunkTexts] : n \in 0 .. MaxChunks}
SampleMetadata == [source |-> "sample_docs/sample.txt"]

\* np.argsort with the default kind does not promise an order among equal
\* keys; which order comes out depends on the numpy build and is the same
\* every time that build sorts the same array.
ArgsortTies == {"ascending", "descending"}

\* _model.encode(texts, convert_to_numpy=True): one row per text; for an
\* empty list it is np.asarray([]), which has one dimension.
Encode(texts) ==
    IF texts = <<>>
    THEN [shape |-> <<0>>, data |-> <<>>]
    ELSE [shape |-> <<Len(texts), Len(Embedding[texts[1]])>>,
          data |-> [i \in 1 .. Len(texts) |-> Embedding[texts[i]]]]

EmbedTexts(texts) ==
    LET embs == Encode(texts)
    IN  IF Len(embs.shape) = 1
        THEN [shape |-> <<1, embs.shape[1]>>, data |-> <<embs.data>>]
        ELSE embs

RECURSIVE SumTo(_, _)
SumTo(f, n) == IF n = 0 THEN 0 ELSE f[n] + SumTo(f, n - 1)

Dot(u, v) == SumTo([c \in 1 .. Len(u) |-> u[c] * v[c]], Len(u))

Sqrt(n) == CHOOSE r \in 0 .. n : r * r = n

Norm(row) == Sqrt(Dot(row, row))

SimpleInMemoryIndex(texts, metadatas) ==
    LET embeddings == EmbedTexts(texts)
        rows == 1 .. embeddings.shape[1]
        norms == [i \in rows |->
                    IF Norm(embeddings.data[i]) = 0
                    THEN 1 ELSE Norm(embeddings.data[i])]
    IN  [type |-> "SimpleInMemoryIndex",
         texts |-> texts,
         metadatas |-> IF metadatas = <<>>
                       THEN [i \in 1 .. Len(texts) |-> <<>>]
                       ELSE metadatas,
         embeddings |-> embeddings,
         normed |-> [shape |-> embeddings.shape,
                     data |-> [i \in rows |->
                        [c \in 1 .. embeddings.shape[2] |->
                            embeddings.data[i][c] \div norms[i]]]]]

\* create_or_load_index: texts and metadatas of the chunks, in their order.
CreateOrLoadIndex(chunks) ==
    SimpleInMemoryIndex([i \in 1 .. Len(chunks) |-> chunks[i].page_content],
                        [i \in 1 .. Len(chunks) |-> chunks[i].metadata])

Chunk(text) == [page_content |-> text, metadata |-> SampleMetadata]

\* ------------------------------------------------------------------ query
Min(a, b) == IF a <= b THEN a ELSE b

\* Row i comes before row j in the sorted order of keys.
Before(keys, ties, i, j) ==
    \/ keys[i] < keys[j]
    \/ /\ keys[i] = keys[j]
       /\ IF ties = "ascending" THEN i < j ELSE i > j

\* np.argsort(keys): the rows in ascending order of their keys.
Argsort(keys, ties) ==
    LET rows == 1 .. Len(keys)
    IN  [r \in rows |->
            CHOOSE i \in rows :
                Cardinality({j \in rows : Before(keys, ties, j, i)}) = r - 1]

\* seq[:k] for k >= 0.
Take(seq, k) == SubSeq(seq, 1, Min(k, Len(seq)))

\* The matrix product of line 41 raises: the row lengths differ.
QueryRaised == [raised |-> TRUE, top_idx |-> <<>>, results |-> <<>>]

\* query(qtext, top_k).  The 1e-12 added to the query's norm makes a zero
\* query vector stay zero and scales every score of a query by the same
\* factor just below 1; scores are counted in units of that factor.
Query(self, qtext, top_k, ties) ==
    LET q_emb == EmbedTexts(<<qtext>>)
        qlen == Norm(q_emb.data[1])
        qnorm == [shape |-> q_emb.shape,
                  data |-> <<[c \in 1 .. q_emb.shape[2] |->
                                IF qlen = 0 THEN 0
                                ELSE q_emb.data[1][c] \div qlen]>>]
    IN  IF self.normed.shape[2] # qnorm.shape[2]
        THEN QueryRaised
        ELSE LET sims == [i \in 1 .. self.normed.shape[1] |->
                            Dot(self.normed.data[i], qnorm.data[1])]
                 top_idx == Take(Argsort([i \in DOMAIN sims |-> -sims[i]], ties),
                                 top_k)
             IN  [raised |-> FALSE,
                  top_idx |-> top_idx,
                  results |-> [r \in 1 .. Len(top_idx) |->
                                 [text |-> self.texts[top_idx[r]],
                                  score |-> sims[top_idx[r]],
                                  metadata |-> self.metadatas[top_idx[r]]]]]

\* A query that rescales the stored rows in place.
IndexRescaledInPlace(self) == [self EXCEPT !.embeddings = self.normed]

\* The index object after a query call: query assigns no attribute of self.
IndexAfterQuery(self) == self

\* ---------------------------------------------------------------- actions
CreateIndex(texts) ==
    /\ idx = None
    /\ idx' = CreateOrLoadIndex([i \in 1 .. Len(texts) |-> Chunk(texts[i])])
    /\ UNCHANGED <<argsort_ties, queries, ingestVars, serviceVars>>

QueryIndex(qtext, top_k) ==
    /\ idx # None
    /\ Len(queries) < MaxQueries
    /\ queries' = Append(queries,
            [qtext |-> qtext, top_k |-> top_k,
             out |-> Query(idx, qtext, top_k, argsort_ties)])
    /\ idx' = IndexAfterQuery(idx)
    /\ UNCHANGED <<argsort_ties, ingestVars, serviceVars>>

InitIndex ==
    /\ ManifestIdle
    /\ ServiceIdle
    /\ idx = None
    /\ argsort_ties \in ArgsortTies
    /\ queries = <<>>

NextIndex ==
    \/ \E texts \in ChunkSeqs : CreateIndex(texts)
    \/ \E qtext \in QueryTexts, top_k \in TopKs : QueryIndex(qtext, top_k)

SpecIndex == InitIndex /\ [][NextIndex]_vars

\* ------------------------------------------------------------------ claims
\* C14: on an index built from n >= 1 chunks, a query with top_k >= 1
\* returns exactly min(top_k, n) results, in descending order of score, and
\* results of equal score in ascending order of their row in the index.
C14_QueryRanked ==
    \A i \in DOMAIN queries :
        idx.texts # <<>> =>
            LET out == queries[i].out
            IN  /\ ~out.raised
                /\ Len(out.results) = Min(queries[i].top_k, Len(idx.texts))
                /\ \A a, b \in DOMAIN out.results :
                    a < b =>
                        \/ out.results[a].score > out.results[b].score
                        \/ /\ out.results[a].score = out.results[b].score
                           /\ out.top_idx[a] < out.top_idx[b]

\* C15: an index built from zero chunks is constructed, and every query on
\* it returns the empty sequence without raising.
C15_EmptyIndexQueries ==
    \A i \in DOMAIN queries :
        idx.texts = <<>> =>
            /\ ~queries[i].out.raised
            /\ queries[i].out.results = <<>>

NewIndex(c) == [type |-> "SimpleInMemoryIndex", id |-> c]

\* build_retriever(index): a Retriever holding the index it was given.
BuildRetriever(index) == [type |-> "Retriever", index |-> index]

\* Lines 36-37: the sample file is not there.
IngestMissing(c) ==
    /\ ingests[c].pc = "idle"
    /\ ingests' = [ingests EXCEPT ![c] = [@ EXCEPT !.pc = "done", !.status = 404]]
    /\ UNCHANGED <<INDEX, RETRIEVER, answers, ingestVars, indexVars>>

\* Lines 36-41: the file is there; load, split, build, store into INDEX.
IngestIndex(c) ==
    /\ ingests[c].pc = "idle"
    /\ INDEX' = NewIndex(c)
    /\ ingests' = [ingests EXCEPT ![c] = [@ EXCEPT !.pc = "line 42"]]
    /\ UNCHANGED <<RETRIEVER, answers, ingestVars, indexVars>>

\* Line 42, the argument: the global INDEX is read.
IngestLoad(c) ==
    /\ ingests[c].pc = "line 42"
    /\ ingests' = [ingests EXCEPT ![c] = [@ EXCEPT !.pc = "store", !.loaded = INDEX]]
    /\ UNCHANGED <<INDEX, RETRIEVER, answers, ingestVars, indexVars>>

\* Line 42, the assignment, and the answer of line 44.
IngestRetriever(c) ==
    /\ ingests[c].pc = "store"
    /\ RETRIEVER' = BuildRetriever(ingests[c].loaded)
    /\ ingests' = [ingests EXCEPT ![c] = [IdleIngest EXCEPT !.pc = "done", !.status = 200]]
    /\ UNCHANGED <<INDEX, answers, ingestVars, indexVars>>

\* query_docs: 400 when RETRIEVER is None, else the retriever is asked.
QueryDocs ==
    /\ Len(answers) < MaxQueries
    /\ answers' = Append(answers,
            IF RETRIEVER = None
            THEN [status |-> 400, retriever |-> None]
            ELSE [status |-> 200, retriever |-> RETRIEVER])
    /\ UNCHANGED <<INDEX, RETRIEVER, ingests, ingestVars, indexVars>>

InitService == ManifestIdle /\ IndexIdle /\ ServiceIdle

NextService ==
    \/ \E c \in IngestIds :
        \/ IngestMissing(c)
        \/ IngestIndex(c)
        \/ IngestLoad(c)
        \/ IngestRetriever(c)
    \/ QueryDocs

SpecService == InitService /\ [][NextService]_vars

\* ------------------------------------------------------------------ claims
\* No ingest_docs call is between its first and its last line.
NoIngestInFlight == \A c \in IngestIds : ingests[c].pc \in {"idle", "done"}

\* RETRIEVER and INDEX are both None, or RETRIEVER wraps the index in INDEX.
RetrieverMatchesIndex ==
    \/ RETRIEVER = None /\ INDEX = None
    \/ RETRIEVER # None /\ RETRIEVER.index = INDEX

\* C19: a query is answered 400 exactly when no ingest has set RETRIEVER
\* yet; an ingest answered 404 leaves INDEX and RETRIEVER as they were; and
\* whenever no ingest is in flight RETRIEVER and INDEX are both None or
\* RETRIEVER wraps the index in INDEX, however the ingest calls interleave.
C19_ServiceStateConsistent ==
    [][/\ answers' # answers =>
            (answers'[Len(answers')].status = 400
                <=> \A c \in IngestIds : ingests[c].status # 200)
       /\ \A c \in IngestIds :
            (ingests[c].status # 404 /\ ingests'[c].status = 404)
            => (INDEX' = INDEX /\ RETRIEVER' = RETRIEVER)
       /\ NoIngestInFlight' => RetrieverMatchesIndex']_vars

====
